---- MODULE Spec2Model ----
(***************************************************************************)
(* Model of the resilient fetch path of llxt: NewClient (client.go),       *)
(* Fetcher.Fetch / Fetcher.FetchLLMsTxt (fetch.go), the error codes and    *)
(* the default Config.  Durations are counted in units of 100ms.           *)
(* The retry loop and the circuit breaker live in the resty library; the   *)
(* repository only configures them, so their transitions follow the        *)
(* behaviour the specification document gives for them.                    *)
(***************************************************************************)
EXTENDS Integers, Sequences, FiniteSets, TLC

\* ---------------------------------------------------------------- bounds
NumCallers == 2
MaxRetryCount == 3
\* Status codes of a final response: net/http consumes informational 1xx
\* responses itself, so the response Get returns has a status of 200 or more.
MaxKeyLen == 2
MinStatus == 200
MaxStatus == 599

\* ------------------------------------------------------ program constants
\* client.go:11-15 (durations in 100ms units: 30s = 300)
cbFailureThresholdLow == 3 - 1
cbFailureThreshold == 3
cbSuccessThresholdTwo == 1 + 1
cbSuccessThreshold == 1
cbResetTimeoutShort == 300 - 100
cbResetTimeoutHalved == 300 \div 2
cbResetTimeoutDoubled == 300 * 2
cbResetTimeout == 300

\* Config defaults (unnamed/part_002:15-20)
defaultTimeout == 300
defaultRetryCount == 3
defaultRetryWaitTime == 1
defaultRetryMaxWaitTimeWrongUnit == 1 + 1
defaultRetryMaxWaitTime == 20

\* fetch.go:9-13
statusNotFound == 404
statusRateLimited == 429
statusBadRequestOffByOne == 400 + 1
statusBadRequest == 400

\* errs codes (fetch.go:81-92)
CodeNotFound == "not_found"
CodeNetworkFailure == "network_failure"
CodeRateLimited == "rate_limited"
CodeTimeout == "timeout"

\* ------------------------------------------------------------ Config
Nil == [isNil |-> TRUE]

DefaultConfig ==
    [isNil |-> FALSE,
     Timeout |-> defaultTimeout,
     RetryCount |-> defaultRetryCount,
     RetryWaitTime |-> defaultRetryWaitTime,
     RetryMaxWaitTime |-> defaultRetryMaxWaitTime,
     Verbose |-> FALSE]

\* NewClient without the SetRetryCount call.
NewClientNoRetryCount(cfg) ==
    LET c == IF cfg.isNil THEN DefaultConfig ELSE cfg
    IN  [timeout |-> c.Timeout,
         retryCount |-> 0,
         retryWaitTime |-> c.RetryWaitTime,
         retryMaxWaitTime |-> c.RetryMaxWaitTime,
         debug |-> c.Verbose]

\* NewClient with one retry too many.
NewClientExtraRetry(cfg) ==
    LET c == IF cfg.isNil THEN DefaultConfig ELSE cfg
    IN  [timeout |-> c.Timeout,
         retryCount |-> c.RetryCount + 1,
         retryWaitTime |-> c.RetryWaitTime,
         retryMaxWaitTime |-> c.RetryMaxWaitTime,
         debug |-> c.Verbose]

\* The settings NewClient hands to the resty client (client.go:22-24, 39-54).
NewClient(cfg) ==
    LET c == IF cfg.isNil THEN DefaultConfig ELSE cfg
    IN  [timeout |-> c.Timeout,
         retryCount |-> c.RetryCount,
         retryWaitTime |-> c.RetryWaitTime,
         retryMaxWaitTime |-> c.RetryMaxWaitTime,
         debug |-> c.Verbose]

\* ------------------------------------------------- errors and Fetch
\* The err of (resp, err): none, the breaker's rejection, a transport failure.
NoCause == ""
ErrCircuitBreakerOpen == "circuit breaker open"
ErrConnRefused == "connection refused"
ErrTimeout == "context deadline exceeded"

NoError == [isNil |-> TRUE, code |-> "", ctx |-> [none |-> TRUE],
            hint |-> "", msg |-> "", cause |-> ""]

\* errs.HTTPErr.Code(code).With(...).Hint(hint).Errorf/Wrapf
HTTPErr(code, ctx, hint, msg, cause) ==
    [isNil |-> FALSE, code |-> code, ctx |-> ctx,
     hint |-> hint, msg |-> msg, cause |-> cause]

\* What client.R().Get(url) hands back: a response or an error.
NoResp == [isNil |-> TRUE, status |-> 0, body |-> <<>>, retryAfter |-> ""]
Resp(status, body, retryAfter) ==
    [isNil |-> FALSE, status |-> status, body |-> body, retryAfter |-> retryAfter]
GetOK(resp) == [resp |-> resp, err |-> NoCause]
GetErr(err) == [resp |-> NoResp, err |-> err]

\* Variants of the error values with one builder call wrong or missing.
TransportErrAsTimeout(url, cause) ==
    HTTPErr(CodeTimeout, [url |-> url], "", "failed to fetch content", cause)
TransportErrDropsCause(url, cause) ==
    HTTPErr(CodeNetworkFailure, [url |-> url], "", "failed to fetch content", NoCause)
TransportErrSameCause(url, cause) ==
    HTTPErr(CodeNetworkFailure, [url |-> url], "", "failed to fetch content",
            ErrConnRefused)
TransportErrNoURL(url, cause) ==
    HTTPErr(CodeNetworkFailure, [none |-> TRUE], "", "failed to fetch content", cause)
RateLimitedErrNoHeader(url, resp) ==
    HTTPErr(CodeRateLimited, [url |-> url, retry_after |-> ""],
            "Wait before retrying or use a different source",
            "rate limited by server", NoCause)
StatusErrNoStatus(url, resp) ==
    HTTPErr(CodeNetworkFailure, [url |-> url], "", "HTTP error", NoCause)

\* The four error values Fetch builds (fetch.go:36-39, 43-47, 51-56, 60-64).
TransportErr(url, cause) ==
    HTTPErr(CodeNetworkFailure, [url |-> url], "", "failed to fetch content", cause)

NotFoundErr(url, resp) ==
    HTTPErr(CodeNotFound, [url |-> url, status |-> resp.status],
            "", "resource not found", NoCause)

RateLimitedErr(url, resp) ==
    HTTPErr(CodeRateLimited, [url |-> url, retry_after |-> resp.retryAfter],
            "Wait before retrying or use a different source",
            "rate limited by server", NoCause)

StatusErr(url, resp) ==
    HTTPErr(CodeNetworkFailure, [url |-> url, status |-> resp.status],
            "", "HTTP error", NoCause)

\* Fetch returning the response's body without its first element.
FetchCutsBody(url, got) ==
    IF got.err # NoCause
    THEN [content |-> <<>>, err |-> TransportErr(url, got.err)]
    ELSE IF got.resp.status = statusNotFound
    THEN [content |-> <<>>, err |-> NotFoundErr(url, got.resp)]
    ELSE IF got.resp.status = statusRateLimited
    THEN [content |-> <<>>, err |-> RateLimitedErr(url, got.resp)]
    ELSE IF got.resp.status >= statusBadRequest
    THEN [content |-> <<>>, err |-> StatusErr(url, got.resp)]
    ELSE [content |-> IF got.resp.body = <<>> THEN <<>> ELSE Tail(got.resp.body),
          err |-> NoError]

\* Fetcher.Fetch after the GET has returned (fetch.go:33-68).
Fetch(url, got) ==
    IF got.err # NoCause
    THEN [content |-> <<>>, err |-> TransportErr(url, got.err)]
    ELSE IF got.resp.status = statusNotFound
    THEN [content |-> <<>>, err |-> NotFoundErr(url, got.resp)]
    ELSE IF got.resp.status = statusRateLimited
    THEN [content |-> <<>>, err |-> RateLimitedErr(url, got.resp)]
    ELSE IF got.resp.status >= statusBadRequest
    THEN [content |-> <<>>, err |-> StatusErr(url, got.resp)]
    ELSE [content |-> got.resp.body, err |-> NoError]

\* Fetcher.FetchLLMsTxt's choice of target (fetch.go:71-77); an absent
\* fullURL pointer is Nil, a present one is [isNil |-> FALSE, val |-> s].
NilURL == [isNil |-> TRUE, val |-> ""]
Ptr(s) == [isNil |-> FALSE, val |-> s]
FetchLLMsTxtTarget(url, fullURL, full) ==
    IF full /\ ~fullURL.isNil THEN fullURL.val ELSE url

\* ------------------------------------------------- circuit breaker
\* resty.CircuitBreaker5xxPolicy (client.go:31): a response fails the
\* breaker iff its status is 5xx.
CircuitBreaker4xxPolicy(resp) == resp.status > 399
CircuitBreaker5xxPolicy(resp) == resp.status > 499

NewCircuitBreakerOpen == [state |-> "Open", failureCount |-> 0, successCount |-> 0]
NewCircuitBreaker == [state |-> "Closed", failureCount |-> 0, successCount |-> 0]

changeState(cb, s) == [state |-> s, failureCount |-> 0, successCount |-> 0]

\* The breaker's request-completion hook.
applyPolicies(cb, resp) ==
    IF resp.isNil THEN cb
    ELSE IF CircuitBreaker5xxPolicy(resp)
    THEN CASE cb.state = "Closed" ->
                 IF cb.failureCount + 1 >= cbFailureThreshold
                 THEN changeState(cb, "Open")
                 ELSE [cb EXCEPT !.failureCount = @ + 1]
           [] cb.state = "HalfOpen" -> changeState(cb, "Open")
           [] OTHER -> cb
    ELSE CASE cb.state = "Closed" -> [cb EXCEPT !.failureCount = 0]
           [] cb.state = "HalfOpen" ->
                 IF cb.successCount + 1 >= cbSuccessThreshold
                 THEN changeState(cb, "Closed")
                 ELSE [cb EXCEPT !.successCount = @ + 1]
           [] OTHER -> cb

\* The breaker's admission check before an attempt goes to the network.
allow(cb) == cb.state # "Open"

\* The hook logging only when the breaker opens.
OnStateChangeOpenOnly(old, new) ==
    IF old.state # new.state /\ new.state = "Open"
    THEN <<[from |-> old.state, to |-> new.state]>> ELSE <<>>

\* OnStateChange hook (client.go:32-37): one log entry per state change.
OnStateChange(old, new) ==
    IF old.state # new.state THEN <<[from |-> old.state, to |-> new.state]>> ELSE <<>>

\* ------------------------------------------------- retry loop
\* Which outcomes of an attempt the client retries: transport failures,
\* 429 and 5xx.
NeedsRetry(got) ==
    \/ got.err # NoCause
    \/ got.resp.status = statusRateLimited
    \/ got.resp.status >= 500

\* Class of an attempt's outcome, used to summarise a call's attempts.
Class(got) ==
    IF got.err # NoCause THEN "transport"
    ELSE IF got.resp.status >= 500 THEN "5xx"
    ELSE IF got.resp.status = statusRateLimited THEN "429"
    ELSE IF got.resp.status >= statusBadRequest THEN "4xx"
    ELSE "ok"

Summarise(prev, cls) ==
    IF prev = "none" \/ prev = cls THEN cls ELSE "mixed"

\* The run of consecutive 5xx responses delivered while the breaker is
\* closed, as an observer of the traffic counts it (it stops counting at 3):
\* a 5xx response lengthens the run, any other response ends it, an attempt
\* without a response leaves it.  The observer looks at the breaker's state
\* only, never at its counters: outside Closed the run stands still, and it
\* starts again from zero when the breaker closes.
ObserveRun(run, was, now, got) ==
    IF was = "Closed"
    THEN IF got.resp.isNil THEN run
         ELSE IF got.resp.status >= 500 THEN (IF run < 3 THEN run + 1 ELSE run)
         ELSE 0
    ELSE IF now = "Closed" THEN 0 ELSE run

\* ------------------------------------------------- environment
Callers == 1..NumCallers
\* The caller whose call history and results are recorded; the other callers
\* run the same code as concurrent traffic through the same client.
Observed == CHOOSE p \in Callers : \A q \in Callers : p <= q
PrimaryURL == "https://example.test/llms.txt"
FullURL == "https://example.test/llms-full.txt"
BodyOf(k) == <<k>>
Statuses == {200, statusNotFound, statusRateLimited, 500}
Outcomes(k) == {GetErr(ErrConnRefused)} \cup
               {GetOK(Resp(s, BodyOf(k), "")) : s \in Statuses}
NoGot == GetErr(NoCause)

HalfReset == cbResetTimeout \div 2
TickSteps == {HalfReset - 1, HalfReset}

CfgInputs == {Nil} \cup {[DefaultConfig EXCEPT !.RetryCount = n] : n \in 0..MaxRetryCount}

NoResult == [content |-> <<>>, err |-> NoError, pending |-> TRUE]
Returned(r) == [content |-> r.content, err |-> r.err, pending |-> FALSE]

\* Inputs of a direct application of FetchLLMsTxt / Fetch to one outcome.
StatusCodes == MinStatus..MaxStatus
ProbeOutcomes ==
    {GetErr(e) : e \in {ErrConnRefused, ErrCircuitBreakerOpen}} \cup
    {GetOK(Resp(c, b, h)) : c \in StatusCodes, b \in {<<>>, <<1>>}, h \in {"", "5"}}
ProbeInputs ==
    {[op |-> "input", url |-> PrimaryURL, fullURL |-> a, full |-> f, got |-> g,
      target |-> "", out |-> NoResult] :
        a \in {NilURL, Ptr(""), Ptr(FullURL)}, f \in BOOLEAN, g \in ProbeOutcomes}
NoProbe == [op |-> "none", url |-> "", fullURL |-> NilURL, full |-> FALSE,
            got |-> NoGot, target |-> "", out |-> NoResult]

VARIABLES
    cfg,        \* the *Config handed to NewFetcher / NewClient (Nil for a nil pointer)
    client,     \* settings of the client built by NewClient
    cb,         \* the client's circuit breaker
    openAge,    \* time since the breaker entered Open (0 unless Open)
    emitted,    \* log entries written by the last step
    pc,         \* per caller: "idle", "sending", "inflight"
    attempt,    \* per caller: attempts of the current call that reached the network
    prev,       \* Observed: summary of the outcomes of the call's earlier attempts
    last,       \* Observed: outcome of the call's most recent network attempt
    result,     \* Observed: what its last Fetch returned
    probe,      \* a direct application of FetchLLMsTxt to given inputs
    failRun,    \* observer: run of consecutive 5xx responses seen while Closed
    used,       \* observer: some attempt has gone through this client
    cancelAt,   \* attempts the observed call had made when its caller's
                \* context was cancelled; -1 while no signal was given
    run         \* one run of the command line: its inputs, then its effects

vars == <<cfg, client, cb, openAge, emitted, pc, attempt, prev, last, result, probe,
          failRun, used, cancelAt, run>>

clientVars == <<cfg, client, cb, openAge, emitted, pc, attempt, prev, last, result,
                failRun, used>>

InitClient(inputs) ==
    /\ cfg \in inputs
    /\ client = NewClient(cfg)
    /\ cb = NewCircuitBreaker
    /\ openAge = 0
    /\ emitted = <<>>
    /\ pc = [p \in Callers |-> "idle"]
    /\ attempt = [p \in Callers |-> 0]
    /\ prev = "none"
    /\ last = NoGot
    /\ result = NoResult
    /\ failRun = 0
    /\ used = FALSE
    /\ cancelAt = -1

\* No command-line run is under way.
NoRun == [op |-> "none"]

Init ==
    /\ InitClient(CfgInputs)
    /\ probe = NoProbe
    /\ run = NoRun

\* Fetch building a client (and so a breaker) of its own for every call.
StartFetchNewBreaker(p) ==
    /\ pc[p] = "idle"
    /\ pc' = [pc EXCEPT ![p] = "sending"]
    /\ attempt' = [attempt EXCEPT ![p] = 0]
    /\ IF p = Observed
       THEN prev' = "none" /\ last' = NoGot /\ result' = NoResult
       ELSE UNCHANGED <<prev, last, result>>
    /\ emitted' = <<>>
    /\ cb' = NewCircuitBreaker
    /\ openAge' = 0
    /\ UNCHANGED <<cfg, client, probe, failRun, used, cancelAt, run>>

\* A caller enters Fetch(url): f.client.R().Get(url) begins.
StartFetch(p) ==
    /\ pc[p] = "idle"
    /\ pc' = [pc EXCEPT ![p] = "sending"]
    /\ attempt' = [attempt EXCEPT ![p] = 0]
    /\ IF p = Observed
       THEN prev' = "none" /\ last' = NoGot /\ result' = NoResult
       ELSE UNCHANGED <<prev, last, result>>
    /\ emitted' = <<>>
    /\ UNCHANGED <<cfg, client, cb, openAge, probe, failRun, used, cancelAt, run>>

\* The next attempt of a call passes the breaker and goes to the network.
SendAttempt(p) ==
    /\ pc[p] = "sending"
    /\ allow(cb)
    /\ attempt' = [attempt EXCEPT ![p] = @ + 1]
    /\ pc' = [pc EXCEPT ![p] = "inflight"]
    /\ emitted' = <<>>
    /\ used' = TRUE
    /\ UNCHANGED <<cfg, client, cb, openAge, prev, last, result, probe, failRun, cancelAt, run>>

\* The next attempt of a call is blocked by the open breaker: the call ends
\* at once with the breaker's error, which Fetch wraps.
RejectAttempt(p) ==
    /\ pc[p] = "sending"
    /\ ~allow(cb)
    /\ pc' = [pc EXCEPT ![p] = "idle"]
    /\ IF p = Observed
       THEN result' = Returned(Fetch(PrimaryURL, GetErr(ErrCircuitBreakerOpen)))
       ELSE UNCHANGED result
    /\ emitted' = <<>>
    /\ UNCHANGED <<cfg, client, cb, openAge, attempt, prev, last, probe, failRun, used, cancelAt, run>>

\* An attempt completes with outcome got: the breaker's hook runs, then the
\* retry loop either goes round again or hands the outcome to Fetch.
Complete(p, got) ==
    /\ pc[p] = "inflight"
    /\ LET cb2 == applyPolicies(cb, got.resp)
       IN  /\ cb' = cb2
           /\ emitted' = OnStateChange(cb, cb2)
           /\ openAge' = IF cb2.state # cb.state THEN 0 ELSE openAge
    /\ IF attempt[p] - 1 = client.retryCount \/ ~NeedsRetry(got)
       THEN /\ pc' = [pc EXCEPT ![p] = "idle"]
            /\ IF p = Observed
               THEN /\ result' = Returned(Fetch(PrimaryURL, got))
                    /\ last' = got
                    /\ UNCHANGED prev
               ELSE UNCHANGED <<prev, last, result>>
       ELSE /\ pc' = [pc EXCEPT ![p] = "sending"]
            /\ IF p = Observed
               THEN /\ prev' = Summarise(prev, Class(got))
                    /\ last' = got
                    /\ UNCHANGED result
               ELSE UNCHANGED <<prev, last, result>>
    /\ failRun' = ObserveRun(failRun, cb.state, cb'.state, got)
    /\ UNCHANGED <<cfg, client, attempt, probe, used, cancelAt, run>>

\* Time passes while the breaker is Open; when resetTimeout has elapsed
\* since it opened the breaker becomes HalfOpen.
Tick(d) ==
    /\ cb.state = "Open"
    /\ IF openAge + d >= cbResetTimeout
       THEN /\ cb' = changeState(cb, "HalfOpen")
            /\ openAge' = 0
       ELSE /\ cb' = cb
            /\ openAge' = openAge + d
    /\ emitted' = OnStateChange(cb, cb')
    /\ UNCHANGED <<cfg, client, pc, attempt, prev, last, result, probe, failRun, used, cancelAt, run>>

Next ==
    \/ \E p \in Callers : StartFetch(p)
    \/ \E p \in Callers : SendAttempt(p)
    \/ \E p \in Callers : RejectAttempt(p)
    \/ \E p \in Callers : \E got \in Outcomes(attempt[p]) : Complete(p, got)
    \/ \E d \in TickSteps : Tick(d)

Spec == Init /\ [][Next]_vars

\* ---- FetchLLMsTxt applied directly to one outcome of the GET
\* Fetcher.FetchLLMsTxt (fetch.go:71-77) followed by Fetch's classification.
ApplyFetchLLMsTxt ==
    /\ probe.op = "input"
    /\ LET t == FetchLLMsTxtTarget(probe.url, probe.fullURL, probe.full)
       IN  probe' = [probe EXCEPT !.op = "done", !.target = t,
                                  !.out = Returned(Fetch(t, probe.got))]
    /\ UNCHANGED <<clientVars, cancelAt, run>>

InitFetch ==
    /\ InitClient({Nil})
    /\ probe \in ProbeInputs
    /\ run = NoRun

NextFetch == ApplyFetchLLMsTxt

SpecFetch == InitFetch /\ [][NextFetch]_vars

\* ------------------------------------------------- properties
ProbeDone == probe.op = "done"
ProbeResp == ProbeDone /\ probe.got.err = NoCause
ProbeStatus == probe.got.resp.status

\* The Observed caller's call has returned.
Done == pc[Observed] = "idle" /\ ~result.pending
BreakerRejection ==
    /\ ~result.err.isNil
    /\ result.err.code = CodeNetworkFailure
    /\ result.err.cause = ErrCircuitBreakerOpen
\* The retry count the caller configured (3 when no Config is given).
ConfiguredRetryCount == IF cfg.isNil THEN 3 ELSE cfg.RetryCount
\* Every attempt before the most recent one failed at transport level.
EarlierAllTransport == prev \in {"none", "transport"}

\* C1: for the status c of the final response, Fetch returns not_found iff
\* c = 404, rate_limited iff c = 429, the generic HTTP error (network_failure)
\* iff c >= 400 and c is neither, and the body with no error iff c < 400.
C1_StatusClassification ==
    ProbeResp =>
        LET c == ProbeStatus
            e == probe.out.err
        IN  /\ (e.code = "not_found") <=> (c = 404)
            /\ (e.code = "rate_limited") <=> (c = 429)
            /\ (e.code = "network_failure") <=> (c >= 400 /\ c # 404 /\ c # 429)
            /\ e.isNil <=> (c < 400)
            /\ e.isNil => probe.out.content = probe.got.resp.body
            /\ ~e.isNil => probe.out.content = <<>>

C1_Witness ==
    /\ ProbeResp
    /\ ProbeStatus = 400
    /\ probe.out.err.code = "network_failure"

\* C2: while the breaker is Open (failureThreshold consecutive failures seen,
\* resetTimeout not yet elapsed) a Fetch call that is made fails with the
\* breaker's fail-fast error wrapped as a network_failure, and no caller's
\* count of attempts that reached the network grows.
C2_FailFastWhileOpen ==
    [][(/\ cb.state = "Open"
        /\ pc[Observed] = "sending"
        /\ attempt[Observed] = 0
        /\ pc'[Observed] # "sending")
       => (/\ pc'[Observed] = "idle"
           /\ ~result'.pending
           /\ ~result'.err.isNil
           /\ result'.err.code = "network_failure"
           /\ result'.err.cause = ErrCircuitBreakerOpen
           /\ result'.content = <<>>
           /\ attempt' = attempt)]_vars

C2_Witness ==
    /\ Done
    /\ BreakerRejection
    /\ attempt[Observed] = 0
    /\ cb.state = "Open"
    /\ openAge > 0

\* C3: with retryCount = n, a call whose attempts 1..n fail at transport level
\* is not given up before attempt n+1, and when attempt n+1 succeeds Fetch
\* returns success with the body of attempt n+1.
C3_RetryBoundary ==
    (Done /\ EarlierAllTransport /\ ~BreakerRejection) =>
        /\ Class(last) = "transport" => attempt[Observed] = ConfiguredRetryCount + 1
        /\ attempt[Observed] <= ConfiguredRetryCount + 1
        /\ (attempt[Observed] = ConfiguredRetryCount + 1 /\ Class(last) = "ok")
              => (result.err.isNil /\ result.content = BodyOf(ConfiguredRetryCount + 1))

C3_Witness ==
    /\ Done
    /\ ConfiguredRetryCount = 3
    /\ prev = "transport"
    /\ attempt[Observed] = 4
    /\ Class(last) = "ok"
    /\ result.err.isNil
    /\ result.content = BodyOf(4)

\* C4: an attempt blocked by the open breaker ends the call at once with the
\* breaker's error; the retry loop makes no further attempt for it.
C4_RejectionNotRetried ==
    [][(/\ pc[Observed] = "sending"
        /\ ~allow(cb)
        /\ pc'[Observed] # pc[Observed])
       => (/\ pc'[Observed] = "idle"
           /\ ~result'.pending
           /\ result'.err.cause = ErrCircuitBreakerOpen
           /\ result'.err.code = "network_failure"
           /\ attempt'[Observed] = attempt[Observed])]_vars

C4_Witness ==
    /\ Done
    /\ BreakerRejection
    /\ attempt[Observed] >= 1
    /\ attempt[Observed] <= ConfiguredRetryCount

\* C5: a call all of whose attempts received a 5xx response returns the HTTP
\* error carrying the URL and that status, never the status-less error of a
\* breaker rejection.
C5_StatusErrorSurvivesBreaker ==
    (Done /\ prev \in {"none", "5xx"} /\ Class(last) = "5xx") =>
        /\ ~result.err.isNil
        /\ result.err.code = "network_failure"
        /\ result.err.cause = NoCause
        /\ "status" \in DOMAIN result.err.ctx
        /\ result.err.ctx.status = last.resp.status
        /\ result.err.ctx.url = PrimaryURL

\* C6: when all retryCount+1 attempts fail at transport level, Fetch returns
\* the network_failure error that wraps the cause and carries the URL, and
\* no content.
C6_TransportExhausted ==
    (/\ Done
     /\ attempt[Observed] = ConfiguredRetryCount + 1
     /\ EarlierAllTransport
     /\ Class(last) = "transport")
    => (/\ ~result.err.isNil
        /\ result.err.code = "network_failure"
        /\ result.err.cause = last.err
        /\ result.err.cause # NoCause
        /\ "url" \in DOMAIN result.err.ctx
        /\ result.err.ctx.url = PrimaryURL
        /\ result.content = <<>>)

C6_Witness ==
    /\ Done
    /\ ConfiguredRetryCount = 3
    /\ attempt[Observed] = 4
    /\ prev = "transport"
    /\ Class(last) = "transport"
    /\ result.err.cause = ErrConnRefused

\* C7 as stated: on 429 the rate_limited error carries the URL, the status
\* 429, the Retry-After value and the fixed hint.
C7_RateLimitedCarriesStatus ==
    (ProbeResp /\ ProbeStatus = 429) =>
        LET e == probe.out.err
        IN  /\ e.code = "rate_limited"
            /\ e.ctx.url = probe.target
            /\ "status" \in DOMAIN e.ctx
            /\ e.ctx.retry_after = probe.got.resp.retryAfter
            /\ e.hint = "Wait before retrying or use a different source"

\* C7 amended: on 429 the rate_limited error carries the URL, the Retry-After
\* header value (the empty string when the header is absent) and the fixed
\* hint; it carries no status field.
C7_RateLimitedFields ==
    (ProbeResp /\ ProbeStatus = 429) =>
        LET e == probe.out.err
        IN  /\ ~e.isNil
            /\ e.code = "rate_limited"
            /\ DOMAIN e.ctx = {"url", "retry_after"}
            /\ e.ctx.url = probe.target
            /\ e.ctx.retry_after = probe.got.resp.retryAfter
            /\ e.hint = "Wait before retrying or use a different source"
            /\ probe.out.content = <<>>

C7_Witness ==
    /\ ProbeResp
    /\ ProbeStatus = 429
    /\ probe.got.resp.retryAfter = "5"
    /\ probe.out.err.ctx.retry_after = "5"

\* C8: FetchLLMsTxt targets primary when useFull is false; when useFull is
\* true it targets alternate only if alternate is present and non-empty and
\* otherwise primary.
C8_TargetSelection ==
    ProbeDone =>
        probe.target =
            IF probe.full /\ ~probe.fullURL.isNil /\ probe.fullURL.val # ""
            THEN probe.fullURL.val
            ELSE probe.url

\* C9 as stated: every outcome that is not a 2xx/3xx response yields an error
\* of one of four pairwise distinct kinds, the kind of an HTTP error status
\* differing from the kind of a transport failure; content is non-empty only
\* without an error.
IsSuccessClass(got) ==
    got.err = NoCause /\ got.resp.status >= 200 /\ got.resp.status < 400
KindOfStatusError == Fetch(PrimaryURL, GetOK(Resp(500, <<>>, ""))).err.code
C9_FourDistinctKinds ==
    ProbeDone =>
        /\ ~IsSuccessClass(probe.got) => ~probe.out.err.isNil
        /\ ~probe.out.err.isNil =>
              probe.out.err.code \in {CodeNotFound, CodeRateLimited, CodeNetworkFailure}
        /\ probe.got.err # NoCause => probe.out.err.code # KindOfStatusError
        /\ probe.out.content # <<>> => probe.out.err.isNil

\* C9 amended: every outcome other than a response with status below 400
\* yields exactly one error whose code is not_found (404), rate_limited
\* (429) or network_failure; network_failure is shared by the other statuses
\* >= 400 (which carry a status and no cause) and by transport failures
\* (which carry a cause and no status); content is non-empty only without
\* an error.
C9_ThreeCodes ==
    ProbeDone =>
        LET e == probe.out.err
            g == probe.got
        IN  /\ e.isNil <=> (g.err = NoCause /\ g.resp.status < 400)
            /\ ~e.isNil => e.code \in {"not_found", "rate_limited", "network_failure"}
            /\ g.err # NoCause =>
                  (e.code = "network_failure" /\ e.cause = g.err
                   /\ "status" \notin DOMAIN e.ctx)
            /\ (g.err = NoCause /\ g.resp.status >= 400
                /\ g.resp.status # 404 /\ g.resp.status # 429) =>
                  (e.code = "network_failure" /\ e.cause = NoCause
                   /\ "status" \in DOMAIN e.ctx /\ e.ctx.status = g.resp.status)
            /\ (g.err = NoCause /\ g.resp.status = 404) => e.code = "not_found"
            /\ (g.err = NoCause /\ g.resp.status = 429) => e.code = "rate_limited"
            /\ probe.out.content # <<>> => e.isNil

C9_Witness ==
    /\ ProbeDone
    /\ probe.got.err = ErrConnRefused
    /\ probe.out.err.code = KindOfStatusError

\* C10: the breaker is never Open once resetTimeout (30s) has elapsed since
\* it opened, a call's attempt made while it is HalfOpen or Closed goes to
\* the network, and a trial that completes with a non-failing response while
\* it is HalfOpen closes it.
C10_HalfOpenTrial ==
    [][/\ cb.state = "Open" => openAge < 300
       /\ (cb.state # "Open" /\ pc[Observed] = "sending" /\ pc'[Observed] # "sending")
             => (pc'[Observed] = "inflight"
                 /\ attempt'[Observed] = attempt[Observed] + 1)
       /\ (/\ cb.state = "HalfOpen"
           /\ pc[Observed] = "inflight"
           /\ pc'[Observed] # "inflight"
           /\ ~last'.resp.isNil
           /\ last'.resp.status < 500)
             => (cb'.state = "Closed" /\ allow(cb'))]_vars

C10_Witness ==
    /\ emitted = <<[from |-> "HalfOpen", to |-> "Closed"]>>
    /\ cb.state = "Closed"
    /\ ~last.resp.isNil
    /\ last.resp.status < 500

\* Time elapsed since the breaker opened, once the longest single step of
\* time has been added to it.
ElapsedAfterStep == openAge + HalfReset

\* C11: a call's trial that completes with a 5xx response while the breaker
\* is HalfOpen puts the breaker back to Open and restarts the reset timer,
\* and the breaker then stays Open until a full resetTimeout (30s) has
\* elapsed since that re-opening.
C11_HalfOpenFailureReopens ==
    [][/\ (/\ cb.state = "HalfOpen"
           /\ pc[Observed] = "inflight"
           /\ pc'[Observed] # "inflight"
           /\ ~last'.resp.isNil
           /\ last'.resp.status >= 500)
             => (cb'.state = "Open" /\ openAge' = 0 /\ ~allow(cb'))
       /\ (cb.state = "HalfOpen" /\ cb'.state = "Open") => openAge' = 0
       /\ (cb.state = "Open" /\ cb'.state # "Open") => ElapsedAfterStep >= 300]_vars

C11_Witness ==
    /\ emitted = <<[from |-> "HalfOpen", to |-> "Open"]>>
    /\ cb.state = "Open"
    /\ openAge = 0
    /\ ~last.resp.isNil
    /\ last.resp.status >= 500

\* C12: while the breaker is Closed it opens exactly on the step that brings
\* the run of consecutive 5xx responses to 3: it is never Closed with a run
\* of 3, and it never opens on a shorter run (a run that a non-5xx response
\* interrupted starts again from zero).
C12_OpensAtThreshold ==
    [][/\ cb.state = "Closed" => failRun < 3
       /\ (cb.state = "Closed" /\ cb'.state # "Closed")
             => (cb'.state = "Open" /\ failRun = 2 /\ failRun' = 3)
       /\ (cb.state = "Closed" /\ failRun' = 3) => cb'.state = "Open"]_vars

C12_Witness ==
    /\ emitted = <<[from |-> "Closed", to |-> "Open"]>>
    /\ cb.state = "Open"
    /\ failRun = 3
    /\ prev = "mixed"

\* C13: the breaker's state is always one of Closed, Open and HalfOpen and
\* changes only along Closed->Open, Open->HalfOpen, HalfOpen->Closed and
\* HalfOpen->Open; Open is left only for HalfOpen and only once resetTimeout
\* (30s) has elapsed since the breaker opened.
C13_TransitionRelation ==
    [][/\ cb.state \in {"Closed", "Open", "HalfOpen"}
       /\ cb'.state \in {"Closed", "Open", "HalfOpen"}
       /\ cb'.state # cb.state
             => <<cb.state, cb'.state>> \in
                   {<<"Closed", "Open">>, <<"Open", "HalfOpen">>,
                    <<"HalfOpen", "Closed">>, <<"HalfOpen", "Open">>}
       /\ (cb.state = "Open" /\ cb'.state # "Open")
             => (cb'.state = "HalfOpen" /\ ElapsedAfterStep >= 300)]_vars

C13_Witness ==
    /\ emitted = <<[from |-> "Open", to |-> "HalfOpen"]>>
    /\ cb.state = "HalfOpen"

\* ------------------------------------------ caller-supplied configurations
\* Configurations a caller can hand to NewClient: none, or a Config whose
\* fields hold any durations and any retry count, the zero values included
\* (NewClient takes the fields as they are).
Durations == {0, defaultRetryWaitTime, defaultRetryMaxWaitTime}
AnyCfgInputs ==
    {Nil} \cup
    {[isNil |-> FALSE, Timeout |-> t, RetryCount |-> n, RetryWaitTime |-> w,
      RetryMaxWaitTime |-> m, Verbose |-> FALSE] :
        t \in {0, defaultTimeout}, n \in {0, MaxRetryCount},
        w \in Durations, m \in Durations}

InitAnyConfig == InitClient(AnyCfgInputs) /\ probe = NoProbe /\ run = NoRun

\* The server never answers an attempt.  With a positive timeout the attempt
\* ends after that time with a transport error; a timeout of zero sets no
\* deadline, and the attempt (and so the call) waits forever.
ServerSilent(p) ==
    /\ pc[p] = "inflight"
    /\ IF client.timeout > 0
       THEN Complete(p, GetErr(ErrTimeout))
       ELSE /\ pc' = [pc EXCEPT ![p] = "blocked"]
            /\ emitted' = <<>>
            /\ UNCHANGED <<cfg, client, cb, openAge, attempt, prev, last, result,
                           probe, failRun, used, cancelAt, run>>

NextAnyConfig ==
    \/ Next
    \/ \E p \in Callers : ServerSilent(p)

SpecAnyConfig == InitAnyConfig /\ [][NextAnyConfig]_vars

\* C17: every call terminates, whatever Config the client was built from
\* and whatever the server does: no call is ever left in an attempt that
\* nothing will end.
C17_EveryCallTerminates == \A p \in Callers : pc[p] # "blocked"

\* C18: every client NewClient builds has base backoff <= max backoff and
\* timeout > 0, for a caller-supplied Config as for the defaults.
C18_ConfigInvariant ==
    /\ client.retryWaitTime <= client.retryMaxWaitTime
    /\ client.timeout > 0

\* C19: NewClient builds a client from every Config and from none; from
\* none the client has timeout 30s, retry count 3, base backoff 100ms, max
\* backoff 2s and no debug logging, and its breaker has failure threshold 3,
\* success threshold 1 and reset timeout 30s (durations in units of 100ms).
C19_DefaultsWhenNil ==
    /\ DOMAIN client =
          {"timeout", "retryCount", "retryWaitTime", "retryMaxWaitTime", "debug"}
    /\ cfg.isNil =>
          /\ client.timeout = 300
          /\ client.retryCount = 3
          /\ client.retryWaitTime = 1
          /\ client.retryMaxWaitTime = 20
          /\ client.debug = FALSE
          /\ cbFailureThreshold = 3
          /\ cbSuccessThreshold = 1
          /\ cbResetTimeout = 300

C19_Witness ==
    /\ cfg.isNil
    /\ Done
    /\ attempt[Observed] = 4
    /\ client.retryMaxWaitTime = 20

\* C20: a client's breaker is Closed until an attempt has gone through the
\* client, so the first attempt of the first call is sent to the network
\* and not rejected, whatever the retry count (0 included).
C20_FirstCallAttempted ==
    [][/\ ~used => (cb.state = "Closed" /\ allow(cb))
       /\ \A p \in Callers :
             (~used /\ pc[p] = "sending" /\ pc'[p] # "sending")
                => (pc'[p] = "inflight" /\ attempt'[p] = 1 /\ used')]_vars

C20_Witness ==
    /\ used
    /\ client.retryCount = 0
    /\ pc[Observed] = "inflight"
    /\ attempt[Observed] = 1
    /\ cb.state = "Closed"
    /\ \A q \in Callers \ {Observed} : pc[q] = "idle" /\ attempt[q] = 0

\* Time advances: while the breaker is Open its reset timer keeps running.
TimeAdvances == WF_vars(\E d \in TickSteps : Tick(d))

\* The client the CLI builds (no Config given), with time advancing.
InitLive == InitClient({Nil}) /\ probe = NoProbe /\ run = NoRun

SpecLive == InitLive /\ [][Next]_vars /\ TimeAdvances

\* C14: Open is not a terminal state: given that time advances, whenever the
\* breaker is Open it later becomes HalfOpen, and it is never still Open
\* once resetTimeout (30s) has elapsed since it opened.
C14_OpenEventuallyHalfOpen ==
    /\ (cb.state = "Open") ~> (cb.state = "HalfOpen")
    /\ [](cb.state = "Open" => openAge < 300)

C14_Witness ==
    /\ cb.state = "HalfOpen"
    /\ openAge = 0
    /\ failRun = 3
    /\ pc[Observed] = "inflight"

\* The most recent attempt of the observed call ended in a failure that the
\* retry loop retries.
LastWasRetryable == Class(last) \in {"transport", "5xx", "429"}

\* C16: a call makes at most retryCount + 1 network attempts; it makes a
\* further attempt only after a retryable failure, so it stops at the first
\* success; its caller has no result while the call is running; a success
\* returned is the body of the call's last attempt; and an attempt's failure
\* is returned only when it was attempt retryCount + 1.
C16_BoundedAttemptsOneResult ==
    /\ \A p \in Callers : attempt[p] <= ConfiguredRetryCount + 1
    /\ pc[Observed] # "idle" => result.pending
    /\ (pc[Observed] = "sending" /\ attempt[Observed] >= 1) => LastWasRetryable
    /\ (pc[Observed] = "inflight" /\ attempt[Observed] >= 2) => LastWasRetryable
    /\ (Done /\ result.err.isNil)
          => (Class(last) = "ok" /\ result.content = BodyOf(attempt[Observed]))
    /\ (Done /\ ~BreakerRejection /\ LastWasRetryable)
          => attempt[Observed] = ConfiguredRetryCount + 1

C16_Witness ==
    /\ Done
    /\ ConfiguredRetryCount = 3
    /\ attempt[Observed] = 4
    /\ prev = "mixed"
    /\ Class(last) = "429"
    /\ ~result.err.isNil
    /\ result.err.code = CodeRateLimited

\* The observed call has returned a Transport-kind error: code
\* network_failure built on the err branch, which carries no status.
ReturnedTransportError ==
    /\ Done
    /\ ~result.err.isNil
    /\ result.err.code = CodeNetworkFailure
    /\ "status" \notin DOMAIN result.err.ctx

\* C21: a Transport-kind error returned by Fetch wraps either the breaker's
\* rejection or the network failure of the call's last attempt, and the two
\* causes differ: it wraps the network failure exactly when the call used
\* all its retryCount + 1 attempts and the last one failed at transport
\* level, and the breaker's rejection otherwise.
C21_RejectionDistinguishable ==
    /\ ErrCircuitBreakerOpen # ErrConnRefused
    /\ ReturnedTransportError =>
          /\ result.err.cause \in {ErrCircuitBreakerOpen, ErrConnRefused}
          /\ result.err.cause = ErrConnRefused
                <=> (/\ Class(last) = "transport"
                     /\ last.err = ErrConnRefused
                     /\ attempt[Observed] = ConfiguredRetryCount + 1)

C21_Witness ==
    /\ ReturnedTransportError
    /\ result.err.cause = ErrCircuitBreakerOpen
    /\ Class(last) = "transport"
    /\ attempt[Observed] = 1

\* C24: the breaker's state and counters change only in a step in which an
\* attempt completes or in which the reset timeout elapses (Open ->
\* HalfOpen); a call entering Fetch, an attempt rejected while Open and an
\* application of FetchLLMsTxt's URL selection leave the breaker and its
\* reset timer as they were.
C24_BreakerFrame ==
    [][/\ cb' # cb =>
             \/ \E p \in Callers : pc[p] = "inflight" /\ pc'[p] # "inflight"
             \/ cb.state = "Open" /\ cb'.state = "HalfOpen" /\ pc' = pc
       /\ \A p \in Callers :
             (pc[p] = "sending" /\ pc'[p] = "idle")
                => (cb.state = "Open" /\ cb' = cb /\ openAge' = openAge)
       /\ \A p \in Callers :
             (pc[p] = "idle" /\ pc'[p] # "idle") => (cb' = cb /\ openAge' = openAge)
       /\ probe' # probe => cb' = cb]_vars

C24_Witness ==
    /\ Done
    /\ BreakerRejection
    /\ cb.state = "Open"
    /\ emitted = <<>>
    /\ openAge > 0

\* --------------------------------------------------------------- backoff
\* The wait before the retry that follows attempt k: the base backoff
\* doubled with every attempt, cut off at the max backoff (jitter left out).
Backoff(c, k) ==
    LET d == c.retryWaitTime * 2 ^ (k - 1)
    IN  IF d > c.retryMaxWaitTime THEN c.retryMaxWaitTime ELSE d

\* The observed call is waiting to retry after a failed attempt.
WaitingToRetry == pc[Observed] = "sending" /\ attempt[Observed] >= 1

\* C23: the wait between two consecutive attempts of a call is at least the
\* client's base backoff and at most its max backoff.
C23_BackoffWithinBounds ==
    WaitingToRetry =>
        /\ client.retryWaitTime <= Backoff(client, attempt[Observed])
        /\ Backoff(client, attempt[Observed]) <= client.retryMaxWaitTime

\* ------------------------------------------------------- cancellation
\* The caller's context is cancelled while the observed call is running.
\* fetchAction discards its context (commands/fetch.go:34) and Fetch takes
\* none (fetch.go:33-34): the GET runs under no caller context, so the
\* signal reaches neither the attempt in progress nor the retry loop.
Cancel ==
    /\ pc[Observed] \in {"sending", "inflight"}
    /\ cancelAt = -1
    /\ cancelAt' = attempt[Observed]
    /\ emitted' = <<>>
    /\ UNCHANGED <<cfg, client, cb, openAge, pc, attempt, prev, last, result,
                   probe, failRun, used, run>>

NextCancel ==
    \/ Next
    \/ Cancel

SpecCancel == InitLive /\ [][NextCancel]_vars

\* C22: once the caller has signalled cancellation, the call starts no
\* further attempt: it has made no more attempts than it had made when the
\* signal was given.
C22_CancelStopsRetries ==
    cancelAt >= 0 => attempt[Observed] <= cancelAt

\* C26: a successful call returns exactly the body of the response its own
\* final attempt received, whatever calls went through the Fetcher before
\* and whatever state they left the breaker and its counters in; so calls
\* that receive the same body return the same content.
C26_ContentIsResponseBody ==
    (Done /\ result.err.isNil) =>
        /\ ~last.resp.isNil
        /\ last.resp.status < 400
        /\ result.content = last.resp.body

C26_Witness ==
    /\ Done
    /\ result.err.isNil
    /\ attempt[Observed] = 1
    /\ result.content = BodyOf(1)
    /\ emitted = <<[from |-> "HalfOpen", to |-> "Closed"]>>

\* C27: a step that changes the breaker's state emits exactly one log entry,
\* which records the state before and the state after the step; a step that
\* leaves the breaker's state as it was emits none.
C27_OneLogPerStateChange ==
    [][/\ cb'.state # cb.state =>
             (/\ emitted' = <<[from |-> cb.state, to |-> cb'.state]>>
              /\ emitted'[1].from # emitted'[1].to)
       /\ cb'.state = cb.state => emitted' = <<>>]_vars

C27_Witness ==
    /\ emitted = <<[from |-> "Closed", to |-> "Open"]>>
    /\ cb.state = "Open"
    /\ openAge = 0
    /\ pc[Observed] = "idle"

\* Statuses at and around the borders of the status classes.
BorderStatuses ==
    {MinStatus, 301, 399, statusBadRequest, statusNotFound, statusRateLimited,
     499, 500, 503, MaxStatus}

\* C28: only 5xx responses count against the breaker.  A call's attempt
\* that completes with a response below 500 (2xx/3xx, 404, 429) never
\* raises the failure count and never opens a breaker that was Closed or
\* HalfOpen; while Closed the failure count is the run of consecutive 5xx
\* responses, and the breaker is away from Closed only after a run of 3;
\* and, whenever an attempt completes, of the statuses at the class borders
\* exactly those from 500 up are counted by a Closed breaker and re-open a
\* HalfOpen one.
C28_Only5xxQualify ==
    [][/\ (pc[Observed] = "inflight" /\ pc'[Observed] # "inflight")
             => \A c \in BorderStatuses :
                   LET r == Resp(c, <<>>, "")
                   IN  /\ applyPolicies(NewCircuitBreaker, r).failureCount
                             = (IF c >= 500 THEN 1 ELSE 0)
                       /\ applyPolicies(changeState(NewCircuitBreaker, "HalfOpen"), r).state
                             = (IF c >= 500 THEN "Open" ELSE "Closed")
       /\ (/\ pc[Observed] = "inflight"
           /\ pc'[Observed] \in {"idle", "sending"}
           /\ ~last'.resp.isNil
           /\ last'.resp.status < 500)
             => (/\ cb'.failureCount <= cb.failureCount
                 /\ cb.state # "Open" => cb'.state = "Closed"
                 /\ cb.state = "Closed" => cb'.failureCount = 0)
       /\ cb.state = "Closed" => cb.failureCount = failRun
       /\ cb.state # "Closed" => failRun = 3]_vars

C28_Witness ==
    /\ Done
    /\ prev = "5xx"
    /\ ~last.resp.isNil
    /\ last.resp.status = 404
    /\ cb.state = "Closed"
    /\ cb.failureCount = 0
    /\ failRun = 0

\* -------------------------------------------------------------- registry
\* Keys and names are strings over a small alphabet, held as sequences of
\* characters: a lower-case letter, its upper-case form, and a space ("-"
\* appears in slugs only).
Chars == {"a", "A", " "}
Strings == UNION {[1..n -> Chars] : n \in 0..MaxKeyLen}

\* strings.ToLower and strings.ReplaceAll(s, old, new) for one-character old.
ToLower(s) == [i \in DOMAIN s |-> IF s[i] = "A" THEN "a" ELSE s[i]]
ReplaceAll(s, old, new) == [i \in DOMAIN s |-> IF s[i] = old THEN new ELSE s[i]]

slugify(name) == ReplaceAll(ToLower(name), " ", "-")

\* entries[k] = v on a map held as a function.
Put(m, k, v) == [x \in DOMAIN m \cup {k} |-> IF x = k THEN v ELSE m[x]]

RECURSIVE loadDirectoryEntries(_, _)
loadDirectoryEntries(entries, dirEntries) ==
    IF dirEntries = <<>> THEN entries
    ELSE LET e == Head(dirEntries)
         IN  loadDirectoryEntries(
                 Put(entries, e.Key,
                     [Key |-> e.Key, Name |-> e.Name, Description |-> "",
                      Category |-> "", LLMsURL |-> e.LLMsURL,
                      LLMsFullURL |-> e.LLMsFullURL]),
                 Tail(dirEntries))

RECURSIVE loadWebsiteEntries(_, _)
loadWebsiteEntries(entries, webEntries) ==
    IF webEntries = <<>> THEN entries
    ELSE LET e == Head(webEntries)
             key == slugify(e.Name)
         IN  loadWebsiteEntries(
                 IF key \in DOMAIN entries
                 THEN [entries EXCEPT ![key] =
                          [@ EXCEPT !.Description = e.Description,
                                    !.Category = e.Category]]
                 ELSE Put(entries, key,
                          [Key |-> key, Name |-> e.Name,
                           Description |-> e.Description, Category |-> e.Category,
                           LLMsURL |-> e.LLMsTxtURL,
                           LLMsFullURL |-> e.LLMsFullTxtURL]),
                 Tail(webEntries))

\* The package's init(): the map after both data files have been loaded.
RegistryInit(dirEntries, webEntries) ==
    loadWebsiteEntries(loadDirectoryEntries(<<>>, dirEntries), webEntries)

NoEntry == [isNil |-> TRUE]
RegistryErr(code, key) ==
    [isNil |-> FALSE, code |-> code, ctx |-> [key |-> key],
     hint |-> "Use 'llxt list' to see available sources or 'llxt add' to add a new one",
     msg |-> "source not found in registry", cause |-> NoCause]

Lookup(entries, key) ==
    LET k == ToLower(key)
    IN  IF k \in DOMAIN entries
        THEN [entry |-> entries[k], err |-> NoError]
        ELSE [entry |-> NoEntry, err |-> RegistryErr(CodeNotFound, key)]

\* Data files with at most one entry each, and a key to look up.
DirectoryEntry(key) ==
    [Key |-> key, Name |-> "dir", LLMsURL |-> PrimaryURL, LLMsFullURL |-> Ptr(FullURL)]
WebsiteEntry(name) ==
    [Name |-> name, Description |-> "web", Category |-> "ai-ml",
     LLMsTxtURL |-> PrimaryURL, LLMsFullTxtURL |-> NilURL]
LookupInputs ==
    {[op |-> "lookup", dirEntries |-> d, webEntries |-> w, key |-> k, out |-> NoEntry] :
        d \in {<<>>} \cup {<<DirectoryEntry(x)>> : x \in Strings},
        w \in {<<>>} \cup {<<WebsiteEntry(x)>> : x \in Strings},
        k \in Strings}

InitRegistry == InitClient({Nil}) /\ probe = NoProbe /\ run \in LookupInputs

ApplyLookup ==
    /\ run.op = "lookup"
    /\ run' = [run EXCEPT !.op = "looked-up",
                          !.out = Lookup(RegistryInit(run.dirEntries, run.webEntries),
                                         run.key)]
    /\ UNCHANGED <<clientVars, cancelAt, probe>>

SpecRegistry == InitRegistry /\ [][ApplyLookup]_vars

\* The registry of a finished lookup, and the stored keys that equal the
\* looked-up key up to letter case.
LookedUp == run.op = "looked-up"
RunEntries == RegistryInit(run.dirEntries, run.webEntries)
MatchingKeys == {k \in DOMAIN RunEntries : ToLower(k) = ToLower(run.key)}

\* C30: Lookup finds every stored entry under any spelling of its key that
\* differs in letter case only: when some stored key matches the looked-up
\* key case-insensitively Lookup returns an entry stored under a matching
\* key, and it returns not_found only when no stored key matches.
C30_LookupCaseInsensitive ==
    LookedUp =>
        /\ MatchingKeys # {} =>
              (run.out.err.isNil /\ \E k \in MatchingKeys : run.out.entry = RunEntries[k])
        /\ ~run.out.err.isNil =>
              (run.out.err.code = "not_found" /\ MatchingKeys = {})

\* ---------------------------------------------------------- command line
ExitSuccess == 0
ExitGeneralError == 1
ExitNotFound == 2
ExitNetworkError == 3
ExitConfigError == 4
ExitInvalidInputOffByOne == 5 + 1
ExitInvalidInput == 5
ExitRateLimited == 6

\* The variables fetchFn closes over: the content it assigns, and how often
\* it has called FetchLLMsTxt.
ClosureStates == [content : {<<>>, BodyOf(1)}, fetches : 0..2]
NewClosure == [content |-> <<>>, fetches |-> 0]

\* fetchFn as a function of the closure's state: one call of
\* fetcher.FetchLLMsTxt(entry.LLMsURL, entry.LLMsFullURL, full), whose GET
\* ends with the outcome got; it assigns content and returns the error.
FetchFn(entry, full, got) ==
    [st \in ClosureStates |->
        LET t == FetchLLMsTxtTarget(entry.LLMsURL, entry.LLMsFullURL, full)
            r == Fetch(t, got)
        IN  [st |-> [content |-> r.content,
                     fetches |-> IF st.fetches < 2 THEN st.fetches + 1 ELSE 2],
             err |-> r.err,
             stderr |-> <<>>]]

\* WithSpinner reporting success whatever fn returned.
WithSpinnerSwallowsError(message, fn, st) ==
    LET r == fn[st]
    IN  [st |-> r.st, err |-> NoError, stderr |-> <<message, "done">>]
\* WithSpinner calling fn again after a failure.
WithSpinnerCallsAgain(message, fn, st) ==
    LET r == fn[st]
        q == IF r.err.isNil THEN r ELSE fn[r.st]
    IN  [st |-> q.st, err |-> q.err,
         stderr |-> <<message, IF q.err.isNil THEN "done" ELSE "errored">>]

\* ui.WithSpinner(message, fn): the spinner goes to stderr, fn is called,
\* the tracker is marked by fn's error, and that error is returned.
WithSpinner(message, fn, st) ==
    LET r == fn[st]
    IN  [st |-> r.st, err |-> r.err,
         stderr |-> <<message, IF r.err.isNil THEN "done" ELSE "errored">>]

\* cli.Exit(msg, code): the error with which the command ends the process;
\* its message goes to stderr.
Exit(msg, code, lookups, fetcher, r) ==
    [exit |-> code, stdout |-> <<>>, stderr |-> r.stderr \o <<msg>>,
     lookups |-> lookups, fetcher |-> fetcher,
     fetches |-> r.st.fetches, content |-> r.st.content, err |-> r.err]

\* No Fetcher was created / the Fetcher created by NewFetcher(cfg).
NoFetcher == [isNil |-> TRUE]
NewFetcher(c) == [isNil |-> FALSE, client |-> NewClient(c)]

NotRun == [st |-> NewClosure, err |-> NoError, stderr |-> <<>>]

fetchAction(entries, in) ==
    IF in.name = <<>>
    THEN Exit("name is required", ExitInvalidInput, 0, NoFetcher, NotRun)
    ELSE LET l == Lookup(entries, in.name)
         IN  IF ~l.err.isNil
             THEN Exit("Source not found", ExitNotFound, 1, NoFetcher,
                       [NotRun EXCEPT !.err = l.err])
             ELSE LET fetcher == NewFetcher([DefaultConfig EXCEPT !.Verbose = in.verbose])
                      fetchFn == FetchFn(l.entry, in.full, in.got)
                      r == IF in.quiet
                           THEN fetchFn[NewClosure]
                           ELSE WithSpinner("Fetching...", fetchFn, NewClosure)
                  IN  IF ~r.err.isNil
                      THEN Exit("Failed to fetch llms.txt", ExitNetworkError, 1,
                                fetcher, r)
                      ELSE [exit |-> ExitSuccess, stdout |-> <<r.st.content>>,
                            stderr |-> r.stderr, lookups |-> 1, fetcher |-> fetcher,
                            fetches |-> r.st.fetches, content |-> r.st.content,
                            err |-> r.err]

\* The bundled registry of a command-line run, and the run's inputs: the
\* name argument, the flags, and how the GET of the fetch ends.
CliEntries ==
    RegistryInit(<<DirectoryEntry(<<"a">>)>>, <<WebsiteEntry(<<"a", "A">>)>>)
CliOutcomes ==
    {GetErr(e) : e \in {ErrConnRefused, ErrCircuitBreakerOpen}} \cup
    {GetOK(Resp(c, BodyOf(1), "")) : c \in Statuses}
CliInputs ==
    {[op |-> "args", in |-> [name |-> n, full |-> f, quiet |-> q,
                             verbose |-> v, got |-> g],
      out |-> NoEntry] :
        n \in Strings, f \in BOOLEAN, q \in BOOLEAN, v \in BOOLEAN,
        g \in CliOutcomes}

InitCli == InitClient({Nil}) /\ probe = NoProbe /\ run \in CliInputs

RunFetchAction ==
    /\ run.op = "args"
    /\ run' = [run EXCEPT !.op = "exited", !.out = fetchAction(CliEntries, run.in)]
    /\ UNCHANGED <<clientVars, cancelAt, probe>>

SpecCli == InitCli /\ [][RunFetchAction]_vars

\* A finished run of the command, and the cases it can end in.
Exited == run.op = "exited"
NameInRegistry == ToLower(run.in.name) \in {<<"a">>, <<"a", "a">>}
GetSucceeded == run.in.got.err = NoCause /\ run.in.got.resp.status < 400

\* C25: a run that reaches the fetch calls FetchLLMsTxt exactly once, with
\* the spinner as without it, and ends with the error that call returned;
\* the same arguments with --quiet switched give the same content, error,
\* exit code and stdout.
C25_SpinnerTransparent ==
    (Exited /\ ~run.out.fetcher.isNil) =>
        LET alt == fetchAction(CliEntries, [run.in EXCEPT !.quiet = ~@])
            e == Lookup(CliEntries, run.in.name).entry
            t == FetchLLMsTxtTarget(e.LLMsURL, e.LLMsFullURL, run.in.full)
        IN  /\ run.out.fetches = 1
            /\ run.out.err = Fetch(t, run.in.got).err
            /\ run.out.content = Fetch(t, run.in.got).content
            /\ run.out.content = alt.content
            /\ run.out.err = alt.err
            /\ run.out.exit = alt.exit
            /\ run.out.stdout = alt.stdout

C25_Witness ==
    /\ Exited
    /\ ~run.in.quiet
    /\ run.out.fetches = 1
    /\ ~run.out.err.isNil
    /\ run.out.err.code = CodeRateLimited
    /\ run.out.stderr = <<"Fetching...", "errored", "Failed to fetch llms.txt">>

TypeOK ==
    /\ cb.state \in {"Closed", "Open", "HalfOpen"}
    /\ openAge \in 0..cbResetTimeout
    /\ \A p \in Callers : pc[p] \in {"idle", "sending", "inflight", "blocked"}
====
